---- MODULE Spec2Model ----
(***************************************************************************)
(* LEDStripController (src/python/led_strip_controller.py): the committed  *)
(* colour, the lock, the serial connection and the fade loop, with the     *)
(* callers' positions in set_rgb / fade_rgb / close.                       *)
(***************************************************************************)
EXTENDS Integers, Sequences, FiniteSets, TLC

(***************************************************************************)
(* Python floats.  fade_rgb computes with IEEE-754 binary64 values; they   *)
(* are modelled bit-exactly.  Every value that occurs (half-integer        *)
(* arguments, decimal times, their quotients by at most 2^18 and sums      *)
(* below 1024) is a multiple of 2^-70, so a float is a sign and a          *)
(* magnitude of NLimbs limbs, most significant first, in base 2^14,        *)
(* counting units of 2^-70: limb 1 is the integer part.                    *)
(* Arithmetic is exact followed by rounding to 53 significant bits,        *)
(* ties to even.                                                           *)
(***************************************************************************)
Base == 2^14

NLimbs == 6

ZeroMag == [i \in 1..NLimbs |-> 0]

\* limbs 1..i of a + b, with carry c into limb i
RECURSIVE MagAddR(_, _, _, _)
MagAddR(a, b, i, c) ==
    IF i = 0 THEN <<>>
    ELSE LET s == a[i] + b[i] + c
         IN  Append(MagAddR(a, b, i - 1, s \div Base), s % Base)

MagAdd(a, b) == MagAddR(a, b, NLimbs, 0)

\* limbs 1..i of a - b (a >= b), with borrow c out of limb i
RECURSIVE MagSubR(_, _, _, _)
MagSubR(a, b, i, c) ==
    IF i = 0 THEN <<>>
    ELSE LET s == a[i] - b[i] - c
         IN  Append(MagSubR(a, b, i - 1, IF s < 0 THEN 1 ELSE 0), s % Base)

MagSub(a, b) == MagSubR(a, b, NLimbs, 0)

\* -1, 0, 1 as a < b, a = b, a > b, comparing from limb i on
RECURSIVE MagCmpR(_, _, _)
MagCmpR(a, b, i) ==
    IF i > NLimbs THEN 0
    ELSE IF a[i] < b[i] THEN -1
    ELSE IF a[i] > b[i] THEN 1
    ELSE MagCmpR(a, b, i + 1)

MagCmp(a, b) == MagCmpR(a, b, 1)

\* the magnitude of a natural number n < 2^28 of units of 2^-70
MagSmall(n) == [i \in 1..NLimbs |->
                   IF i = NLimbs THEN n % Base
                   ELSE IF i = NLimbs - 1 THEN n \div Base
                   ELSE 0]

\* long division of a by the natural number d (0 < d <= 2^16): quotient, remainder
RECURSIVE MagDivR(_, _, _, _)
MagDivR(a, d, i, rem) ==
    IF i > NLimbs THEN [q |-> <<>>, r |-> rem]
    ELSE LET cur  == rem * Base + a[i]
             rest == MagDivR(a, d, i + 1, cur % d)
         IN  [q |-> <<cur \div d>> \o rest.q, r |-> rest.r]

RECURSIVE Log2(_)
Log2(n) == IF n <= 1 THEN 0 ELSE 1 + Log2(n \div 2)

\* index (from bit 0, the unit 2^-70) of the most significant bit of m /= 0
RECURSIVE MsbR(_, _)
MsbR(m, i) ==
    IF m[i] # 0 THEN (NLimbs - i) * 14 + Log2(m[i]) ELSE MsbR(m, i + 1)

Msb(m) == MsbR(m, 1)

(***************************************************************************)
(* Round the exact magnitude m + (a discarded fraction of one unit) to 53  *)
(* significant bits, ties to even.  fracZero: the discarded fraction is 0; *)
(* fracHalf: -1, 0, 1 as it is below, equal to or above one half.          *)
(***************************************************************************)
RoundMag(m, fracZero, fracHalf) ==
    IF m = ZeroMag THEN m
    ELSE LET k    == Msb(m) - 52
             g    == IF k > 0 THEN 2^k ELSE 1
             c    == m[NLimbs - 1] * Base + m[NLimbs]
             low  == c % g
             odd  == (c \div g) % 2 = 1
             up   == IF g = 1
                     THEN fracHalf = 1 \/ (fracHalf = 0 /\ odd)
                     ELSE 2 * low > g
                          \/ (2 * low = g /\ (~fracZero \/ odd))
             down == MagSub(m, MagSmall(low))
         IN  IF up THEN MagAdd(down, MagSmall(g)) ELSE down

FZero == [neg |-> FALSE, m |-> ZeroMag]

\* the float of the integer n (|n| < 2^14), as Python converts an int operand
FInt(n) == [neg |-> n < 0,
            m   |-> [i \in 1..NLimbs |-> IF i = 1 THEN (IF n < 0 THEN -n ELSE n) ELSE 0]]

\* the float h/2 of a half-integer argument, h counting halves (exact)
FHalves(h) ==
    LET a == IF h < 0 THEN -h ELSE h
    IN  [neg |-> h < 0,
         m   |-> [i \in 1..NLimbs |->
                     IF i = 1 THEN a \div 2
                     ELSE IF i = 2 THEN (a % 2) * (Base \div 2)
                     ELSE 0]]

FNeg(x) == IF x.m = ZeroMag THEN x ELSE [x EXCEPT !.neg = ~x.neg]

\* x + y, correctly rounded
FAdd(x, y) ==
    IF x.neg = y.neg
    THEN [neg |-> x.neg, m |-> RoundMag(MagAdd(x.m, y.m), TRUE, -1)]
    ELSE LET c == MagCmp(x.m, y.m)
         IN  IF c = 0 THEN FZero
             ELSE IF c > 0
             THEN [neg |-> x.neg, m |-> RoundMag(MagSub(x.m, y.m), TRUE, -1)]
             ELSE [neg |-> y.neg, m |-> RoundMag(MagSub(y.m, x.m), TRUE, -1)]

FSub(x, y) == FAdd(x, FNeg(y))

\* x / n for a positive integer n, correctly rounded
FDivInt(x, n) ==
    LET d == MagDivR(x.m, n, 1, 0)
        h == IF 2 * d.r < n THEN -1 ELSE IF 2 * d.r = n THEN 0 ELSE 1
    IN  IF x.m = ZeroMag THEN x
        ELSE [neg |-> x.neg, m |-> RoundMag(d.q, d.r = 0, h)]

\* the integer part of x / y (x >= 0, y > 0) by subtracting y * 2^j, j = n..0
RECURSIVE QuotIntR(_, _, _)
QuotIntR(r, ys, j) ==
    IF j < 0 THEN [q |-> 0, r |-> r]
    ELSE IF MagCmp(r, ys[j + 1]) >= 0
         THEN LET rest == QuotIntR(MagSub(r, ys[j + 1]), ys, j - 1)
              IN  [q |-> 2^j + rest.q, r |-> rest.r]
         ELSE QuotIntR(r, ys, j - 1)

\* y, 2y, 4y, ..., y * 2^n
RECURSIVE Doublings(_, _)
Doublings(y, n) ==
    IF n = 0 THEN <<y>>
    ELSE LET d == Doublings(y, n - 1) IN Append(d, MagAdd(d[n], d[n]))

\* the next `bits` fraction bits of r / y (r < y): their value, and the remainder
RECURSIVE QuotBitsR(_, _, _)
QuotBitsR(r, y, bits) ==
    IF bits = 0 THEN [q |-> 0, r |-> r]
    ELSE LET r2   == MagAdd(r, r)
             one  == MagCmp(r2, y) >= 0
             rest == QuotBitsR(IF one THEN MagSub(r2, y) ELSE r2, y, bits - 1)
         IN  [q |-> (IF one THEN 2^(bits - 1) ELSE 0) + rest.q, r |-> rest.r]

\* the fraction limbs i..NLimbs of r / y
RECURSIVE QuotLimbsR(_, _, _)
QuotLimbsR(r, y, i) ==
    IF i > NLimbs THEN [q |-> <<>>, r |-> r]
    ELSE LET l    == QuotBitsR(r, y, 14)
             rest == QuotLimbsR(l.r, y, i + 1)
         IN  [q |-> <<l.q>> \o rest.q, r |-> rest.r]

\* x / y for floats x >= 0, y > 0 with x / y < 2^10, correctly rounded
FDiv(x, y) ==
    LET ip == QuotIntR(x.m, Doublings(y.m, 9), 9)
        fr == QuotLimbsR(ip.r, y.m, 2)
        r2 == MagAdd(fr.r, fr.r)
    IN  [neg |-> FALSE,
         m   |-> RoundMag(<<ip.q>> \o fr.q, fr.r = ZeroMag, MagCmp(r2, y.m))]

\* Python's int(x): truncation toward zero
PyInt(x) == IF x.neg THEN -(x.m[1]) ELSE x.m[1]

\* mutant: int() in place of round()
PyRoundTruncates(x) == PyInt(x)

\* Python's round(x): to the nearest integer, ties to the even one
PyRound(x) ==
    LET ip   == x.m[1]
        half == [i \in 1..NLimbs |-> IF i = 2 THEN Base \div 2 ELSE 0]
        frac == [x.m EXCEPT ![1] = 0]
        c    == MagCmp(frac, half)
        n    == IF c > 0 \/ (c = 0 /\ ip % 2 = 1) THEN ip + 1 ELSE ip
    IN  IF x.neg THEN -n ELSE n

\* the float written as the decimal literal t/10 (t counting tenths)
FTenths(t) == FDivInt(FInt(t), 10)

(***************************************************************************)
(* Bounds and inputs.                                                      *)
(***************************************************************************)
\* top-level calls (set_rgb, fade_rgb, close) made after construction
MaxCalls == 2

\* the callers; caller 1 also runs the constructor
NumCallers == 2

Callers == 1..NumCallers

\* set_rgb arguments, each channel counting halves: (-10, 300, 127.5),
\* (255, 0, 0), (0, 0, 0), show_rainbow's (255, 1, 1), (0.5, 1.5, 2.5)
SetInputs == {<<-20, 600, 255>>, <<510, 0, 0>>, <<0, 0, 0>>, <<510, 2, 2>>, <<1, 3, 5>>}

\* fade_rgb targets, counting halves: (255, 0, 0), (0, 0, 0), show_rainbow's
\* (1, 255, 1), show_system_load's (127.5, 0, 127.5), (0.5, 300, -10), (1.5, 1, 0.5)
FadeTargets == {<<510, 0, 0>>, <<0, 0, 0>>, <<2, 510, 2>>, <<255, 0, 255>>,
                <<1, 600, -20>>, <<3, 2, 1>>}

\* fade_rgb <<time_s, step_time_s>>, counting tenths of a second:
\* (1.0, 0.2), (0.6, 0.2), (0.7, 0.2), (0.1, 0.2)
FadeTimes == {<<10, 2>>, <<6, 2>>, <<7, 2>>, <<1, 2>>}

\* the inputs of the specification with concurrent callers
ConcSetInputs == {<<510, 0, 0>>, <<0, 0, 0>>, <<-20, 600, 255>>}

ConcFadeTargets == {<<510, 0, 0>>, <<1, 600, -20>>}

ConcFadeTimes == {<<6, 2>>, <<1, 2>>}

(***************************************************************************)
(* State.                                                                  *)
(***************************************************************************)
VARIABLES
    _rgb,       \* self._rgb: None (<<>>) or the committed triple
    _lock,      \* self._lock: 0 when free, else the caller that holds it
    _conn,      \* self._conn: is_open, and in_waiting (bytes in the input buffer)
    device,     \* frames the device has received and not yet acknowledged
    wire,       \* every operation performed on the connection, in order
    nextInv,    \* the next invocation number (set_rgb and close invocations)
    ncalls,     \* top-level calls made after construction
    loc,        \* per caller: position and local variables
    obs         \* per caller: what the current top-level call observed (history)

vars == <<_rgb, _lock, _conn, device, wire, nextInv, ncalls, loc, obs>>

None == <<>>

FTriple(x) == <<x, x, x>>

\* the positions of set_rgb between its entry and its return
SetPcs == {"set_old", "set_commit", "set_cmp", "acquire", "enter", "reset",
           "write", "flush", "read", "exit", "release"}

\* the positions at which set_rgb operates on the connection
ConnPcs == {"enter", "reset", "write", "flush", "read", "exit"}

Max(a, b) == IF a >= b THEN a ELSE b

Min(a, b) == IF a <= b THEN a ELSE b

\* _limit(value): round, then clamp into 0..255
MaxChannel == 255

\* mutant: the clamp is missing
LimitUnclamped(value) == PyRound(value)

_limit(value) == Min(Max(0, PyRound(value)), MaxChannel)

\* str(n) for n >= 0
RECURSIVE Str(_)
Str(n) ==
    LET digit == <<"0", "1", "2", "3", "4", "5", "6", "7", "8", "9">>
    IN  IF n < 10 THEN digit[n + 1] ELSE Str(n \div 10) \o digit[(n % 10) + 1]

\* f'{red},{green},{blue}.'
Frame(c) == Str(c[1]) \o "," \o Str(c[2]) \o "," \o Str(c[3]) \o "."

\* the frames written so far
RECURSIVE Frames(_)
Frames(w) ==
    IF w = <<>> THEN <<>>
    ELSE IF w[1].op = "write" THEN <<w[1].data>> \o Frames(Tail(w))
    ELSE Frames(Tail(w))

Event(t, o, data) == [inv |-> loc[t].inv, by |-> t, op |-> o, data |-> data]

\* steps = max(1, int(time_s / step_time_s))
Steps(time) == Max(1, PyInt(FDiv(FTenths(time[1]), FTenths(time[2]))))

\* mutant: the delta is taken over one step too many
DeltaOffByOne(target, from, steps) == FDivInt(FSub(target, FInt(from)), steps + 1)

\* (red - r) / steps: the argument `target` minus the committed int `from`
Delta(target, from, steps) == FDivInt(FSub(target, FInt(from)), steps)

NoObs == [rgb0 |-> None, wire0 |-> 0, conn0 |-> [is_open |-> TRUE, in_waiting |-> 0],
          calls |-> 0, sleeps |-> 0, seq |-> <<>>, raised |-> FALSE, failedAt |-> "",
          prevOp |-> "none", prevInput |-> <<>>, prevWire0 |-> 0, prevRgb0 |-> None,
          acks0 |-> 0]

NoLoc == [pc |-> "idle", op |-> "none", input |-> <<>>, time |-> <<>>,
          args |-> FTriple(FZero), old_rgb |-> None, inv |-> 0, exc |-> FALSE,
          acc |-> FTriple(FZero), delta |-> FTriple(FZero), steps |-> 0, i |-> 0,
          sleep_time |-> FZero, target |-> FTriple(FZero),
          main |-> "none", mode |-> "none", sig |-> FALSE, err |-> FALSE,
          no_load_rgb |-> <<>>, full_load_rgb |-> <<>>, metrics |-> {},
          max_usage |-> 0]

\* __init__ after lines 18-20, with self._rgb = rgb: the port is open, the lock is
\* free, and the constructing caller is entering set_rgb(0, 0, 0)
Constructing(rgb) ==
    /\ _rgb = rgb
    /\ _lock = 0
    /\ _conn = [is_open |-> TRUE, in_waiting |-> 0]
    /\ device = 0
    /\ wire = <<>>
    /\ nextInv = 2
    /\ ncalls = 0
    /\ loc = [t \in Callers |->
                IF t = 1
                THEN [NoLoc EXCEPT !.pc = "set_old", !.op = "init",
                                   !.input = <<0, 0, 0>>, !.args = FTriple(FInt(0)),
                                   !.inv = 1]
                ELSE NoLoc]
    /\ obs = [t \in Callers |-> IF t = 1 THEN [NoObs EXCEPT !.calls = 1] ELSE NoObs]

\* mutant: line 20 sets self._rgb to black instead of None
InitBlack == Constructing(<<0, 0, 0>>)

\* line 20: self._rgb = None
Init == Constructing(None)

\* the constructor has returned the object
Constructed == loc[1].op # "init"

\* the observations a new top-level call starts with
NewObs(t) ==
    [NoObs EXCEPT !.rgb0 = _rgb, !.wire0 = Len(wire), !.conn0 = _conn,
                  !.prevOp = loc[t].op, !.prevInput = loc[t].input,
                  !.prevWire0 = obs[t].wire0, !.prevRgb0 = obs[t].rgb0]

CanCall(t) ==
    /\ Constructed
    /\ loc[t].pc = "idle"
    /\ ncalls < MaxCalls

(***************************************************************************)
(* set_rgb, lines 36-54.                                                   *)
(***************************************************************************)
\* entry of set_rgb(red, green, blue), the arguments counted in halves
CallSet(t, a) ==
    /\ loc' = [loc EXCEPT ![t] = [@ EXCEPT !.pc = "set_old", !.op = "set",
                                           !.input = a,
                                           !.args = [c \in 1..3 |-> FHalves(a[c])],
                                           !.inv = nextInv, !.exc = FALSE]]
    /\ obs' = [obs EXCEPT ![t] = [NewObs(t) EXCEPT !.calls = 1]]
    /\ nextInv' = nextInv + 1
    /\ ncalls' = ncalls + 1
    /\ UNCHANGED <<_rgb, _lock, _conn, device, wire>>

\* a caller invokes set_rgb(red, green, blue)
set_rgb(t, a) == CanCall(t) /\ CallSet(t, a)

\* mutant: old_rgb is never taken from self._rgb
SetOldForgets(t) ==
    /\ loc[t].pc = "set_old"
    /\ loc' = [loc EXCEPT ![t] = [@ EXCEPT !.pc = "set_commit", !.old_rgb = None]]
    /\ UNCHANGED <<_rgb, _lock, _conn, device, wire, nextInv, ncalls, obs>>

\* line 44: old_rgb = self._rgb
SetOld(t) ==
    /\ loc[t].pc = "set_old"
    /\ loc' = [loc EXCEPT ![t] = [@ EXCEPT !.pc = "set_commit", !.old_rgb = _rgb]]
    /\ UNCHANGED <<_rgb, _lock, _conn, device, wire, nextInv, ncalls, obs>>

\* line 45: self._rgb = _limit(red), _limit(green), _limit(blue)
SetCommit(t) ==
    /\ loc[t].pc = "set_commit"
    /\ _rgb' = [c \in 1..3 |-> _limit(loc[t].args[c])]
    /\ loc' = [loc EXCEPT ![t] = [@ EXCEPT !.pc = "set_cmp"]]
    /\ UNCHANGED <<_lock, _conn, device, wire, nextInv, ncalls, obs>>

\* the caller's locals when set_rgb returns or raises: fade_rgb goes on with its
\* next iteration, anything else is over; an exception ends the top-level call
Returned(l) ==
    IF l.exc THEN [l EXCEPT !.pc = IF l.op = "init" THEN "failed" ELSE "idle"]
    ELSE IF l.op = "fade"
    THEN [l EXCEPT !.i = l.i + 1,
                   !.pc = IF l.i + 1 < l.steps THEN "fade_sleep" ELSE "idle"]
    ELSE [l EXCEPT !.pc = "idle", !.op = IF l.op = "init" THEN "none" ELSE l.op]

\* mutant: the early return of lines 46-47 is missing
SetCompareAlwaysSends(t) ==
    /\ loc[t].pc = "set_cmp"
    /\ loc' = [loc EXCEPT ![t] = [@ EXCEPT !.pc = "acquire"]]
    /\ UNCHANGED <<_rgb, _lock, _conn, device, wire, nextInv, ncalls, obs>>

\* lines 46-47: if self._rgb == old_rgb: return; otherwise go on to line 50
SetCompare(t) ==
    /\ loc[t].pc = "set_cmp"
    /\ IF _rgb = loc[t].old_rgb
       THEN /\ loc' = [loc EXCEPT ![t] = Returned(@)]
            /\ obs' = [obs EXCEPT ![t].seq = Append(@, _rgb)]
       ELSE /\ loc' = [loc EXCEPT ![t] = [@ EXCEPT !.pc = "acquire"]]
            /\ obs' = obs
    /\ UNCHANGED <<_rgb, _lock, _conn, device, wire, nextInv, ncalls>>

\* mutant: set_rgb goes on without waiting for the lock
AcquireUnlocked(t) ==
    /\ loc[t].pc = "acquire"
    /\ _lock' = t
    /\ loc' = [loc EXCEPT ![t] = [@ EXCEPT !.pc = "enter"]]
    /\ UNCHANGED <<_rgb, _conn, device, wire, nextInv, ncalls, obs>>

\* line 50: with self._lock
Acquire(t) ==
    /\ loc[t].pc = "acquire"
    /\ _lock = 0
    /\ _lock' = t
    /\ loc' = [loc EXCEPT ![t] = [@ EXCEPT !.pc = "enter"]]
    /\ UNCHANGED <<_rgb, _conn, device, wire, nextInv, ncalls, obs>>

\* line 50: with self._conn; Serial.__enter__ opens the port when it is closed
ConnEnter(t) ==
    /\ loc[t].pc = "enter"
    /\ _conn' = [_conn EXCEPT !.is_open = TRUE]
    /\ wire' = IF _conn.is_open THEN wire ELSE Append(wire, Event(t, "open", ""))
    /\ loc' = [loc EXCEPT ![t] = [@ EXCEPT !.pc = "reset"]]
    /\ UNCHANGED <<_rgb, _lock, device, nextInv, ncalls, obs>>

\* the acknowledgment bytes the device has sent so far: one per frame it received
AcksSent == Len(Frames(wire)) - device

\* mutant: the input buffer is not emptied
ResetKeepsBuffer(t) ==
    /\ loc[t].pc = "reset"
    /\ _conn.is_open
    /\ wire' = Append(wire, Event(t, "reset", ""))
    /\ loc' = [loc EXCEPT ![t] = [@ EXCEPT !.pc = "write"]]
    /\ obs' = [obs EXCEPT ![t].acks0 = AcksSent]
    /\ UNCHANGED <<_rgb, _lock, _conn, device, nextInv, ncalls>>

\* line 51: self._conn.reset_input_buffer()
Reset(t) ==
    /\ loc[t].pc = "reset"
    /\ _conn.is_open
    /\ _conn' = [_conn EXCEPT !.in_waiting = 0]
    /\ wire' = Append(wire, Event(t, "reset", ""))
    /\ loc' = [loc EXCEPT ![t] = [@ EXCEPT !.pc = "write"]]
    /\ obs' = [obs EXCEPT ![t].acks0 = AcksSent]
    /\ UNCHANGED <<_rgb, _lock, device, nextInv, ncalls>>

\* lines 49, 52: self._conn.write(f'{red},{green},{blue}.'), red, green, blue
\* being the limited values of line 45
Write(t) ==
    /\ loc[t].pc = "write"
    /\ _conn.is_open
    /\ wire' = Append(wire, Event(t, "write",
                                  Frame([c \in 1..3 |-> _limit(loc[t].args[c])])))
    /\ device' = device + 1
    /\ loc' = [loc EXCEPT ![t] = [@ EXCEPT !.pc = "flush"]]
    /\ UNCHANGED <<_rgb, _lock, _conn, nextInv, ncalls, obs>>

\* line 53: self._conn.flush()
Flush(t) ==
    /\ loc[t].pc = "flush"
    /\ _conn.is_open
    /\ wire' = Append(wire, Event(t, "flush", ""))
    /\ loc' = [loc EXCEPT ![t] = [@ EXCEPT !.pc = "read"]]
    /\ UNCHANGED <<_rgb, _lock, _conn, device, nextInv, ncalls, obs>>

\* line 54: self._conn.read() blocks until one byte has arrived, and takes it
Read(t) ==
    /\ loc[t].pc = "read"
    /\ _conn.is_open
    /\ _conn.in_waiting > 0
    /\ _conn' = [_conn EXCEPT !.in_waiting = @ - 1]
    /\ wire' = Append(wire, Event(t, "read", ""))
    /\ loc' = [loc EXCEPT ![t] = [@ EXCEPT !.pc = "exit"]]
    /\ UNCHANGED <<_rgb, _lock, device, nextInv, ncalls, obs>>

\* leaving `with self._conn`: Serial.__exit__ closes the port
ConnExit(t) ==
    /\ loc[t].pc = "exit"
    /\ _conn' = [is_open |-> FALSE, in_waiting |-> 0]
    /\ wire' = IF _conn.is_open THEN Append(wire, Event(t, "close", "")) ELSE wire
    /\ loc' = [loc EXCEPT ![t] = [@ EXCEPT !.pc = "release"]]
    /\ UNCHANGED <<_rgb, _lock, device, nextInv, ncalls, obs>>

\* mutant: set_rgb returns or raises without releasing the lock
ReleaseKeepsLock(t) ==
    /\ loc[t].pc = "release"
    /\ loc' = [loc EXCEPT ![t] = Returned(@)]
    /\ obs' = [obs EXCEPT ![t] = IF loc[t].exc THEN [@ EXCEPT !.raised = TRUE]
                                 ELSE [@ EXCEPT !.seq = Append(@, _rgb)]]
    /\ UNCHANGED <<_rgb, _lock, _conn, device, wire, nextInv, ncalls>>

\* leaving `with self._lock`, then set_rgb returns (or the exception goes on)
Release(t) ==
    /\ loc[t].pc = "release"
    /\ _lock' = 0
    /\ loc' = [loc EXCEPT ![t] = Returned(@)]
    /\ obs' = [obs EXCEPT ![t] = IF loc[t].exc THEN [@ EXCEPT !.raised = TRUE]
                                 ELSE [@ EXCEPT !.seq = Append(@, _rgb)]]
    /\ UNCHANGED <<_rgb, _conn, device, wire, nextInv, ncalls>>

\* an operation on the port raises (SerialException): the with statement unwinds,
\* closing the port unless opening it is what failed, and releases the lock
IOFail(t) ==
    /\ loc[t].pc \in {"enter", "reset", "write", "flush", "read"}
    /\ loc' = [loc EXCEPT ![t] = [@ EXCEPT !.exc = TRUE,
                                     !.pc = IF @ = "enter" THEN "release" ELSE "exit"]]
    /\ obs' = [obs EXCEPT ![t].failedAt = loc[t].pc]
    /\ UNCHANGED <<_rgb, _lock, _conn, device, wire, nextInv, ncalls>>

\* the device acknowledges a frame with one byte; a closed port receives nothing
DeviceAck ==
    /\ device > 0
    /\ device' = device - 1
    /\ _conn' = IF _conn.is_open THEN [_conn EXCEPT !.in_waiting = @ + 1] ELSE _conn
    /\ UNCHANGED <<_rgb, _lock, wire, nextInv, ncalls, loc, obs>>

(***************************************************************************)
(* close, lines 29-31.                                                     *)
(***************************************************************************)
\* entry of close()
CallClose(t) ==
    /\ loc' = [loc EXCEPT ![t] = [@ EXCEPT !.pc = "close_acquire", !.op = "close",
                                           !.input = <<>>, !.inv = nextInv,
                                           !.exc = FALSE]]
    /\ obs' = [obs EXCEPT ![t] = NewObs(t)]
    /\ nextInv' = nextInv + 1
    /\ ncalls' = ncalls + 1
    /\ UNCHANGED <<_rgb, _lock, _conn, device, wire>>

\* a caller invokes close()
close(t) == CanCall(t) /\ CallClose(t)

\* mutant: close goes on without waiting for the lock
CloseAcquireUnlocked(t) ==
    /\ loc[t].pc = "close_acquire"
    /\ _lock' = t
    /\ loc' = [loc EXCEPT ![t] = [@ EXCEPT !.pc = "close_conn"]]
    /\ UNCHANGED <<_rgb, _conn, device, wire, nextInv, ncalls, obs>>

\* line 30: with self._lock
CloseAcquire(t) ==
    /\ loc[t].pc = "close_acquire"
    /\ _lock = 0
    /\ _lock' = t
    /\ loc' = [loc EXCEPT ![t] = [@ EXCEPT !.pc = "close_conn"]]
    /\ UNCHANGED <<_rgb, _conn, device, wire, nextInv, ncalls, obs>>

\* line 31: self._conn.close()
CloseConn(t) ==
    /\ loc[t].pc = "close_conn"
    /\ _conn' = [is_open |-> FALSE, in_waiting |-> 0]
    /\ wire' = IF _conn.is_open THEN Append(wire, Event(t, "close", "")) ELSE wire
    /\ loc' = [loc EXCEPT ![t] = [@ EXCEPT !.pc = "close_release"]]
    /\ UNCHANGED <<_rgb, _lock, device, nextInv, ncalls, obs>>

\* leaving `with self._lock`; close returns
CloseRelease(t) ==
    /\ loc[t].pc = "close_release"
    /\ _lock' = 0
    /\ loc' = [loc EXCEPT ![t] = [@ EXCEPT !.pc = "idle"]]
    /\ UNCHANGED <<_rgb, _conn, device, wire, nextInv, ncalls, obs>>

(***************************************************************************)
(* fade_rgb, lines 56-69.                                                  *)
(***************************************************************************)
\* lines 57-61: steps, sleep_time, the start colour and the per-step deltas, for
\* the float arguments `target`; `input` is the target counted in halves when
\* the caller gave it so
CallFade(t, target, input, time) ==
    /\ LET n == Steps(time)
       IN  loc' = [loc EXCEPT ![t] =
                     [@ EXCEPT !.pc = "fade_sleep", !.op = "fade",
                               !.input = input, !.time = time, !.exc = FALSE,
                               !.target = target,
                               !.steps = n, !.i = 0,
                               !.sleep_time = FDivInt(FTenths(time[1]), n),
                               !.acc = [c \in 1..3 |-> FInt(_rgb[c])],
                               !.delta = [c \in 1..3 |->
                                            Delta(target[c], _rgb[c], n)]]]
    /\ obs' = [obs EXCEPT ![t] = NewObs(t)]
    /\ ncalls' = ncalls + 1
    /\ UNCHANGED <<_rgb, _lock, _conn, device, wire, nextInv>>

\* a caller invokes fade_rgb(red, green, blue, time_s, step_time_s), the colour
\* counted in halves and the times in tenths
fade_rgb(t, target, time) ==
    CanCall(t) /\ CallFade(t, [c \in 1..3 |-> FHalves(target[c])], target, time)

\* line 63: sleep(sleep_time)
FadeSleep(t) ==
    /\ loc[t].pc = "fade_sleep"
    /\ loc' = [loc EXCEPT ![t] = [@ EXCEPT !.pc = "fade_step"]]
    /\ obs' = [obs EXCEPT ![t].sleeps = @ + 1]
    /\ UNCHANGED <<_rgb, _lock, _conn, device, wire, nextInv, ncalls>>

\* mutant: the delta is added twice per iteration
AccumulateTwice(acc, delta) == [c \in 1..3 |-> FAdd(FAdd(acc[c], delta[c]), delta[c])]

\* r += dr; g += dg; b += db
Accumulate(acc, delta) == [c \in 1..3 |-> FAdd(acc[c], delta[c])]

\* lines 65-69: accumulate, then call self.set_rgb(r, g, b)
FadeStep(t) ==
    /\ loc[t].pc = "fade_step"
    /\ LET a == Accumulate(loc[t].acc, loc[t].delta)
       IN  loc' = [loc EXCEPT ![t] = [@ EXCEPT !.pc = "set_old", !.acc = a,
                                               !.args = a, !.inv = nextInv]]
    /\ obs' = [obs EXCEPT ![t].calls = @ + 1]
    /\ nextInv' = nextInv + 1
    /\ UNCHANGED <<_rgb, _lock, _conn, device, wire, ncalls>>

(***************************************************************************)
(* Specifications.                                                         *)
(***************************************************************************)
\* the steps of caller t inside set_rgb, fade_rgb and close
Step(t) ==
    \/ SetOld(t) \/ SetCommit(t) \/ SetCompare(t)
    \/ Acquire(t) \/ ConnEnter(t) \/ Reset(t) \/ Write(t) \/ Flush(t) \/ Read(t)
    \/ ConnExit(t) \/ Release(t)
    \/ CloseAcquire(t) \/ CloseConn(t) \/ CloseRelease(t)
    \/ FadeSleep(t) \/ FadeStep(t)

\* the calls caller t may make, with arguments from the given sets
Calls(t, inputs, targets, times) ==
    \/ \E a \in inputs : set_rgb(t, a)
    \/ \E a \in targets : \E d \in times : fade_rgb(t, a, d)
    \/ close(t)

\* any number of concurrent callers, no I/O failure
Next ==
    \/ \E t \in Callers : Step(t)
    \/ \E t \in Callers : Calls(t, ConcSetInputs, ConcFadeTargets, ConcFadeTimes)
    \/ DeviceAck

Spec == Init /\ [][Next]_vars

\* a single caller, no I/O failure
NextSingle ==
    \/ Step(1)
    \/ Calls(1, SetInputs, FadeTargets, FadeTimes)
    \/ DeviceAck

SpecSingle == Init /\ [][NextSingle]_vars

\* a single caller, with I/O failures
NextFail ==
    \/ Step(1)
    \/ Calls(1, ConcSetInputs, ConcFadeTargets, ConcFadeTimes)
    \/ DeviceAck
    \/ IOFail(1)

SpecFail == Init /\ [][NextFail]_vars

\* the inputs of the specification with concurrent callers and I/O failures
LiveSetInputs == {<<510, 0, 0>>}

LiveFadeTargets == {<<510, 0, 0>>}

LiveFadeTimes == {<<1, 2>>}

\* concurrent callers, any operation on the port may raise
NextLive ==
    \/ \E t \in Callers : Step(t)
    \/ \E t \in Callers : Calls(t, LiveSetInputs, LiveFadeTargets, LiveFadeTimes)
    \/ DeviceAck
    \/ \E t \in Callers : IOFail(t)

\* every caller that can take a step eventually takes one (fair scheduling), and
\* the device acknowledges every frame it has received
Fairness ==
    /\ \A t \in Callers : WF_vars(Step(t))
    /\ WF_vars(DeviceAck)

SpecLive == Init /\ [][NextLive]_vars /\ Fairness

(***************************************************************************)
(* main, lines 133-208, with the mode functions show_rainbow, lines 95-100, *)
(* show_system_load, lines 103-126, and manual_control, lines 129-130.     *)
(* Caller 1 is the process running main.                                   *)
(***************************************************************************)
\* calls the mode function makes before the model stops following its endless loop
MaxModeCalls == 2

\* args.func
Modes == {"manual", "rainbow", "sysload"}

\* line 13
_ALL_METRICS == {"cpu", "memory", "disk"}

\* --metrics: the default, and a list naming no known metric
MetricSets == {_ALL_METRICS, {"gpu"}}

\* --no-load-color: the default (0, 0, 255), and green
NoLoadColours == {<<0, 0, 255>>, <<0, 255, 0>>}

\* --full-load-color: the default (255, 0, 0)
FullLoadColours == {<<255, 0, 0>>}

\* max_usage in percent, counted in halves: 0, 50, 100
Usages == {0, 100, 200}

\* <<update_interval_s, step_time_s>> of show_system_load's fades, in tenths:
\* --update-interval 0.6 with fade_rgb's default step_time_s
UpdateInterval == <<6, 2>>

\* <<time_s, step_time_s>> of show_rainbow's fades, in tenths: the fades of the
\* model take 0.6 s (2 steps) where show_rainbow's default time_s is 30 (150 steps)
RainbowTime == <<6, 2>>

\* lines 98-100: the targets of show_rainbow's loop, counted in halves
RainbowTargets == <<<<2, 510, 2>>, <<2, 2, 510>>, <<510, 2, 2>>>>

\* max_usage * 255: the product of a half-integer below 2^44 by 255 is exact
Times255(usage) == FHalves(255 * usage)

\* lines 125-126: value = max_usage * 255 / 100; the target (value, 0, 255 - value)
LoadTarget(usage) ==
    LET value == FDivInt(Times255(usage), 100)
    IN  <<value, FInt(0), FSub(FInt(255), value)>>

\* main before line 191's constructor call has run set_rgb(0, 0, 0): the arguments
\* are parsed, the port is open
InitMain ==
    /\ _rgb = None
    /\ _lock = 0
    /\ _conn = [is_open |-> TRUE, in_waiting |-> 0]
    /\ device = 0
    /\ wire = <<>>
    /\ nextInv = 2
    /\ ncalls = 0
    /\ \E m \in Modes :
       \E n \in (IF m = "sysload" THEN NoLoadColours ELSE {<<0, 0, 255>>}) :
       \E f \in (IF m = "sysload" THEN FullLoadColours ELSE {<<255, 0, 0>>}) :
       \E ms \in (IF m = "sysload" THEN MetricSets ELSE {_ALL_METRICS}) :
          loc = [t \in Callers |->
                   IF t = 1
                   THEN [NoLoc EXCEPT !.pc = "set_old", !.op = "init",
                                      !.input = <<0, 0, 0>>, !.args = FTriple(FInt(0)),
                                      !.inv = 1, !.main = "construct", !.mode = m,
                                      !.no_load_rgb = n, !.full_load_rgb = f,
                                      !.metrics = ms]
                   ELSE NoLoc]
    /\ obs = [t \in Callers |-> IF t = 1 THEN [NoObs EXCEPT !.calls = 1] ELSE NoObs]

\* the mode function is between two statements, no exception under way
InMode(t) == loc[t].main = "mode" /\ loc[t].pc = "idle" /\ ~loc[t].exc

\* lines 191-192: the constructor has returned; __enter__, then the try block
MainEnter(t) ==
    /\ loc[t].main = "construct"
    /\ Constructed
    /\ loc[t].pc = "idle"
    /\ loc' = [loc EXCEPT ![t] = [@ EXCEPT !.main = "mode"]]
    /\ UNCHANGED <<_rgb, _lock, _conn, device, wire, nextInv, ncalls, obs>>

\* line 96: leds.set_rgb(255, 1, 1)
RainbowSet(t) ==
    /\ InMode(t)
    /\ loc[t].mode = "rainbow"
    /\ ncalls = 0
    /\ CallSet(t, <<510, 2, 2>>)

\* lines 97-100: the next fade of the endless loop
RainbowFade(t) ==
    /\ InMode(t)
    /\ loc[t].mode = "rainbow"
    /\ ncalls \in 1..(MaxModeCalls - 1)
    /\ LET target == RainbowTargets[((ncalls - 1) % 3) + 1]
       IN  CallFade(t, [c \in 1..3 |-> FHalves(target[c])], target, RainbowTime)

\* lines 110-118: no known metric was given: raise ValueError
SysloadNoMetrics(t) ==
    /\ InMode(t)
    /\ loc[t].mode = "sysload"
    /\ loc[t].metrics \cap _ALL_METRICS = {}
    /\ loc' = [loc EXCEPT ![t] = [@ EXCEPT !.exc = TRUE]]
    /\ obs' = [obs EXCEPT ![t].raised = TRUE]
    /\ UNCHANGED <<_rgb, _lock, _conn, device, wire, nextInv, ncalls>>

\* lines 120-125: max_usage = max(func() for func in metric_funcs)
SysloadMeasure(t, usage) ==
    /\ InMode(t)
    /\ loc[t].mode = "sysload"
    /\ loc[t].metrics \cap _ALL_METRICS # {}
    /\ ncalls < MaxModeCalls
    /\ loc' = [loc EXCEPT ![t] = [@ EXCEPT !.pc = "sysload_fade", !.max_usage = usage]]
    /\ UNCHANGED <<_rgb, _lock, _conn, device, wire, nextInv, ncalls, obs>>

\* line 126: leds.fade_rgb(value, 0, 255 - value, update_interval_s)
SysloadFade(t) ==
    /\ loc[t].main = "mode"
    /\ loc[t].pc = "sysload_fade"
    /\ CallFade(t, LoadTarget(loc[t].max_usage), <<>>, UpdateInterval)

\* lines 129-130: manual_control returns at once
ManualReturn(t) ==
    /\ InMode(t)
    /\ loc[t].mode = "manual"
    /\ loc' = [loc EXCEPT ![t] = [@ EXCEPT !.main = "exit"]]
    /\ UNCHANGED <<_rgb, _lock, _conn, device, wire, nextInv, ncalls, obs>>

\* mutant: the interrupt is not caught
MainExceptReraises(t) ==
    /\ loc[t].main = "mode"
    /\ loc[t].pc = "idle"
    /\ loc[t].exc
    /\ loc' = [loc EXCEPT ![t] = [@ EXCEPT !.main = "exit", !.exc = FALSE, !.err = TRUE]]
    /\ UNCHANGED <<_rgb, _lock, _conn, device, wire, nextInv, ncalls, obs>>

\* a KeyboardInterrupt is raised wherever the mode function is: inside set_rgb's
\* with block the connection and the lock are left as by any exception, anywhere
\* else the exception goes straight up to main
Interrupt(t) ==
    /\ loc[t].main = "mode"
    /\ ~loc[t].exc
    /\ loc' = [loc EXCEPT ![t] =
                 [@ EXCEPT !.exc = TRUE, !.sig = TRUE,
                           !.pc = IF @ \in {"reset", "write", "flush", "read", "exit"}
                                  THEN "exit"
                                  ELSE IF @ \in {"enter", "release"} THEN "release"
                                  ELSE "idle"]]
    /\ obs' = [obs EXCEPT ![t].raised = TRUE]
    /\ UNCHANGED <<_rgb, _lock, _conn, device, wire, nextInv, ncalls>>

\* lines 192-208: an exception leaves the mode function: KeyboardInterrupt is
\* caught and dropped, anything else goes on through the with statement
MainExcept(t) ==
    /\ loc[t].main = "mode"
    /\ loc[t].pc = "idle"
    /\ loc[t].exc
    /\ loc' = [loc EXCEPT ![t] = [@ EXCEPT !.main = "exit", !.exc = FALSE,
                                           !.err = ~loc[t].sig]]
    /\ UNCHANGED <<_rgb, _lock, _conn, device, wire, nextInv, ncalls, obs>>

\* leaving line 191's with statement: __exit__ (lines 26-27) calls self.close()
MainExit(t) ==
    /\ loc[t].main = "exit"
    /\ loc[t].pc = "idle"
    /\ loc[t].op # "close"
    /\ CallClose(t)

\* close() has returned: main returns, or the error goes on to the interpreter
MainDone(t) ==
    /\ loc[t].main = "exit"
    /\ loc[t].pc = "idle"
    /\ loc[t].op = "close"
    /\ loc' = [loc EXCEPT ![t] = [@ EXCEPT !.main = "done"]]
    /\ UNCHANGED <<_rgb, _lock, _conn, device, wire, nextInv, ncalls, obs>>

\* the steps main takes by itself once the mode function is left
MainLeave(t) == MainExcept(t) \/ MainExit(t) \/ MainDone(t)

\* the program: main with one of the three modes; the port may fail, and the user
\* may interrupt the mode function
NextMain ==
    \/ Step(1)
    \/ DeviceAck
    \/ IOFail(1)
    \/ MainEnter(1)
    \/ RainbowSet(1)
    \/ RainbowFade(1)
    \/ SysloadNoMetrics(1)
    \/ \E usage \in Usages : SysloadMeasure(1, usage)
    \/ SysloadFade(1)
    \/ ManualReturn(1)
    \/ Interrupt(1)
    \/ MainLeave(1)

\* main goes on whenever it can, and the device acknowledges every frame
FairnessMain ==
    /\ WF_vars(Step(1))
    /\ WF_vars(MainLeave(1))
    /\ WF_vars(DeviceAck)

SpecMain == InitMain /\ [][NextMain]_vars /\ FairnessMain

(***************************************************************************)
(* Properties.                                                             *)
(***************************************************************************)
\* no caller is inside set_rgb
NoSetInProgress == \A t \in Callers : loc[t].pc \notin SetPcs

\* C1: the operations on the connection are totally ordered by invocation: at most
\* one caller is between entering and leaving `with self._conn`; the operations of
\* one invocation are consecutive on the wire and in the order (open,) reset, write,
\* flush, read, close; and a frame is written only after the acknowledgment of
\* every earlier frame has been read.
C1_WritesTotallyOrdered ==
    /\ Cardinality({t \in Callers : loc[t].pc \in ConnPcs}) <= 1
    /\ \A j \in 2..Len(wire) :
          IF wire[j].inv = wire[j - 1].inv
          THEN <<wire[j - 1].op, wire[j].op>> \in
                   {<<"open", "reset">>, <<"reset", "write">>, <<"write", "flush">>,
                    <<"flush", "read">>, <<"read", "close">>}
          ELSE /\ \A i \in 1..(j - 1) : wire[i].inv # wire[j].inv
               /\ wire[j].op \in {"open", "reset", "close"}
    /\ \A i, j \in 1..Len(wire) :
          (i < j /\ wire[i].op = "write" /\ wire[j].op = "write")
             => /\ i + 2 < j
                /\ wire[i + 2].op = "read"
                /\ wire[i + 2].inv = wire[i].inv

\* a caller writes its frame while the other caller, which has written a frame
\* before, waits for the lock
C1_Witness ==
    \E t, u \in Callers :
       /\ t # u
       /\ loc[t].pc = "flush"
       /\ loc[u].pc = "acquire"
       /\ \E i \in 1..Len(wire) : wire[i].op = "write" /\ wire[i].by = u

\* C3: once the constructor has returned, get_rgb returns three integers in 0..255
C3_ColourInRange ==
    Constructed => /\ DOMAIN _rgb = 1..3
                   /\ \A c \in 1..3 : _rgb[c] \in 0..255

\* a fade to the out-of-range target (0.5, 300, -10) has returned while another
\* caller called close
C3_Witness ==
    /\ Constructed
    /\ _rgb = <<0, 255, 0>>
    /\ \E t, u \in Callers :
          /\ loc[t].op = "fade" /\ loc[t].input = <<1, 600, -20>> /\ loc[t].pc = "idle"
          /\ loc[u].op = "close"

\* the frames written since the wire held n operations
FramesSince(n) == Len(Frames(wire)) - Len(Frames(SubSeq(wire, 1, n)))

\* v is an integer nearest to h/2 (either one at a tie), clamped into 0..255
NearestClamped(h, v) ==
    \E n \in (h \div 2 - 1)..(h \div 2 + 1) :
       /\ h - 2 * n \in -1..1
       /\ v = IF n < 0 THEN 0 ELSE IF n > 255 THEN 255 ELSE n

\* caller 1 has returned from a direct set_rgb call
SetReturned == loc[1].op = "set" /\ loc[1].pc = "idle" /\ ~obs[1].raised

\* caller 1 has returned from fade_rgb
FadeReturned == loc[1].op = "fade" /\ loc[1].pc = "idle" /\ ~obs[1].raised

\* C2: with a single caller and no I/O failure, after set_rgb(r, g, b) returns
\* get_rgb is, per channel, an integer nearest to the argument clamped into 0..255,
\* and set_rgb(-10, 300, 127.5) commits (0, 255, 128).
C2_SetThenGet ==
    SetReturned =>
       /\ \A c \in 1..3 : NearestClamped(loc[1].input[c], _rgb[c])
       /\ loc[1].input = <<-20, 600, 255>> => _rgb = <<0, 255, 128>>

C2_Witness ==
    SetReturned /\ loc[1].input = <<-20, 600, 255>> /\ _rgb = <<0, 255, 128>>

\* C10: when the constructor has returned and no call has been made yet, the wire
\* holds exactly one frame, "0,0,0.", and get_rgb returns (0, 0, 0).
C10_ConstructionSendsBlack ==
    (Constructed /\ ncalls = 0) =>
       /\ Frames(wire) = <<"0,0,0.">>
       /\ _rgb = <<0, 0, 0>>

C10_Witness ==
    /\ Constructed /\ ncalls = 0 /\ loc[1].pc = "idle"
    /\ Len(wire) > 0 /\ wire[Len(wire)].op = "close"

\* the limited triple of the arguments of caller 1's current call
Limited == [c \in 1..3 |-> _limit(loc[1].args[c])]

\* C4: as stated: after two consecutive set_rgb calls with the same arguments,
\* exactly one frame has been written since the first of them began.
C4_Original ==
    (SetReturned /\ obs[1].prevOp = "set" /\ obs[1].prevInput = loc[1].input)
       => FramesSince(obs[1].prevWire0) = 1

\* C4, amended: a set_rgb call whose limited triple equals the committed triple
\* performs no operation on the connection and leaves the connection and the
\* committed colour as they were, any other call writes exactly one frame; so two
\* consecutive calls with the same arguments write one frame when the first one
\* changes the committed colour, and none otherwise.
C4_NoOpWhenUnchanged ==
    SetReturned =>
       /\ IF Limited = obs[1].rgb0
          THEN Len(wire) = obs[1].wire0 /\ _conn = obs[1].conn0 /\ _rgb = obs[1].rgb0
          ELSE FramesSince(obs[1].wire0) = 1
       /\ (obs[1].prevOp = "set" /\ obs[1].prevInput = loc[1].input)
             => FramesSince(obs[1].prevWire0) =
                   IF obs[1].rgb0 = obs[1].prevRgb0 THEN 0 ELSE 1

\* two consecutive set_rgb(255, 0, 0) calls have returned, the first one having
\* changed the colour
C4_Witness ==
    /\ SetReturned /\ obs[1].prevOp = "set"
    /\ obs[1].prevInput = <<510, 0, 0>> /\ loc[1].input = <<510, 0, 0>>
    /\ obs[1].prevRgb0 = <<0, 0, 0>>
    /\ Len(wire) = obs[1].wire0

\* C5: as stated: when a set_rgb call has raised because entering the connection,
\* the input reset or the write failed, get_rgb returns what it returned before
\* the call.
C5_Original ==
    (loc[1].op = "set" /\ loc[1].pc = "idle" /\ obs[1].raised
       /\ obs[1].failedAt \in {"enter", "reset", "write"})
       => _rgb = obs[1].rgb0

\* C6: as stated: whenever no set_rgb invocation is in progress, get_rgb is the
\* colour of the last frame written.
C6_Original ==
    (Constructed /\ NoSetInProgress) =>
       /\ Frames(wire) # <<>>
       /\ Frame(_rgb) = Frames(wire)[Len(Frames(wire))]

\* x and y differ by less than 2^-42
Near(x, y) ==
    LET d == FSub(x, y) IN d.m[1] = 0 /\ d.m[2] = 0 /\ d.m[3] = 0

\* caller 1 is inside fade_rgb, or has returned from it
InFade == loc[1].op = "fade" /\ ~obs[1].raised

\* every set_rgb call of the fade came after a sleep of its own
SleptBeforeEachCall ==
    obs[1].sleeps = obs[1].calls + (IF loc[1].pc = "fade_step" THEN 1 ELSE 0)

ColourTarget == \A c \in 1..3 : loc[1].input[c] % 2 = 0 /\ loc[1].input[c] \in 0..510

\* lo <= v <= hi or hi <= v <= lo
Between(lo, v, hi) == (lo <= v /\ v <= hi) \/ (hi <= v /\ v <= lo)

\* C8: during a single caller's fade from the committed colour S to a colour T, the
\* colours committed by the successive set_rgb calls are monotone per channel in
\* the direction of T, stay between S and T, and end at T; the fade to (255, 0, 0)
\* over 1.0 s in steps of 0.2 s from (0, 0, 0) makes exactly 5 calls.
C8_MonotoneConvergence ==
    (InFade /\ ColourTarget) =>
       LET S   == obs[1].rgb0
           T   == [c \in 1..3 |-> loc[1].input[c] \div 2]
           seq == <<S>> \o obs[1].seq
       IN  /\ \A c \in 1..3 : \A k \in 2..Len(seq) :
                 /\ Between(S[c], seq[k][c], T[c])
                 /\ Between(seq[k - 1][c], seq[k][c], T[c])
           /\ Between(S[1], _rgb[1], T[1])
           /\ Between(S[2], _rgb[2], T[2])
           /\ Between(S[3], _rgb[3], T[3])
           /\ loc[1].pc = "idle" => (_rgb = T /\ seq[Len(seq)] = T)
           /\ (loc[1].pc = "idle" /\ loc[1].input = <<510, 0, 0>>
                 /\ loc[1].time = <<10, 2>>)
                 => (obs[1].calls = 5 /\ Len(obs[1].seq) = 5)

\* the fade to (255, 0, 0) over 1.0 s from (0, 0, 0) has returned, having
\* committed the reds 51, 102, 153, 204, 255
C8_Witness ==
    /\ FadeReturned
    /\ loc[1].input = <<510, 0, 0>> /\ loc[1].time = <<10, 2>>
    /\ obs[1].rgb0 = <<0, 0, 0>>
    /\ [k \in 1..Len(obs[1].seq) |-> obs[1].seq[k][1]] = <<51, 102, 153, 204, 255>>

\* C9: during and after a fade whose target is the committed colour, nothing is
\* done on the connection and the committed colour stays what it was; when the fade
\* returns it has made `steps` set_rgb calls.
C9_FadeToSameColour ==
    (InFade /\ \A c \in 1..3 : loc[1].input[c] = 2 * obs[1].rgb0[c]) =>
       /\ Len(wire) = obs[1].wire0
       /\ _conn = obs[1].conn0
       /\ _rgb = obs[1].rgb0
       /\ \A k \in 1..Len(obs[1].seq) : obs[1].seq[k] = obs[1].rgb0
       /\ loc[1].pc = "idle" => obs[1].calls = Steps(loc[1].time)

\* a fade of 5 steps to the committed colour (255, 0, 0) has returned
C9_Witness ==
    /\ FadeReturned
    /\ loc[1].input = <<510, 0, 0>> /\ obs[1].rgb0 = <<255, 0, 0>>
    /\ obs[1].calls = 5

\* caller 1 has made no close() call
NeverClosed == loc[1].op # "close" /\ obs[1].prevOp # "close"

\* C11: as stated: a set_rgb call that follows close() and asks for a colour other
\* than the committed one raises, does not reopen the connection and writes no
\* frame.
C11_Original ==
    (loc[1].op = "set" /\ loc[1].pc = "idle" /\ obs[1].prevOp = "close"
       /\ Limited # obs[1].rgb0)
       => /\ obs[1].raised
          /\ Len(wire) = obs[1].wire0
          /\ ~_conn.is_open

\* C12: as stated: from the return of the constructor until close() is called the
\* connection is open, and no operation on it closes or reopens it.
C12_Original ==
    (Constructed /\ NeverClosed) =>
       /\ _conn.is_open
       /\ \A j \in 1..Len(wire) : wire[j].op \notin {"open", "close"}

\* the number of set_rgb calls and the sleep the spec's formula gives:
\* steps = max(1, round(time_s / step_time_s)), time_s / steps
RoundedSteps(time) == Max(1, PyRound(FDiv(FTenths(time[1]), FTenths(time[2]))))

\* C15: as stated: a fade makes max(1, round(time_s / step_time_s)) set_rgb calls
\* and sleeps time_s divided by that number before each of them.
C15_Original ==
    FadeReturned =>
       /\ obs[1].calls = RoundedSteps(loc[1].time)
       /\ loc[1].sleep_time = FDivInt(FTenths(loc[1].time[1]), RoundedSteps(loc[1].time))

\* C17: close() closes the connection only while it holds the lock and no other
\* caller is inside `with self._lock, self._conn`; on the wire, every write, flush
\* and acknowledgment read directly follows the previous operation of its own
\* invocation, so nothing closes the connection between the input reset and the
\* completed read of a command.
C17_CloseExcludesCommand ==
    /\ \A t \in Callers :
          loc[t].pc \in {"close_conn", "close_release"} =>
             /\ _lock = t
             /\ \A u \in Callers \ {t} : loc[u].pc \notin (ConnPcs \cup {"release"})
    /\ \A t \in Callers : loc[t].pc \in {"write", "flush", "read"} => _conn.is_open
    /\ \A j \in 2..Len(wire) :
          wire[j].op \in {"write", "flush", "read"} =>
             /\ wire[j - 1].inv = wire[j].inv
             /\ wire[j - 1].op \in {"reset", "write", "flush"}

\* caller 2 is in close(), waiting for the lock, while caller 1's command waits for
\* its acknowledgment
C17_Witness ==
    /\ loc[2].pc = "close_acquire"
    /\ loc[1].pc = "read" /\ _lock = 1 /\ _conn.is_open

\* the last n operations on the wire
LastOps(n) == [k \in 1..n |-> wire[Len(wire) - n + k].op]

\* C16: a command of set_rgb holds the lock and the open connection from its input
\* reset to its acknowledgment read; every byte in the input buffer after the reset
\* was sent by the device after the reset; and when the read has completed, the
\* command's operations were, in this order and with nothing in between, reset,
\* write, flush, read, and the device has sent at least one byte since the reset.
C16_AckAfterReset ==
    \A t \in Callers :
       /\ (loc[t].pc \in {"write", "flush", "read"} /\ ~loc[t].exc) =>
             /\ _lock = t /\ _conn.is_open
             /\ _conn.in_waiting <= AcksSent - obs[t].acks0
       /\ (loc[t].pc = "exit" /\ ~loc[t].exc) =>
             /\ _lock = t /\ _conn.is_open
             /\ Len(wire) >= 4
             /\ LastOps(4) = <<"reset", "write", "flush", "read">>
             /\ \A k \in 0..3 : wire[Len(wire) - k].inv = loc[t].inv
             /\ AcksSent - obs[t].acks0 >= 1
             /\ _conn.in_waiting <= AcksSent - obs[t].acks0 - 1

\* a command has completed its read after an earlier command had failed between
\* its write and its read: the device had sent that command's byte before the
\* input reset, and another one after it
C16_Witness ==
    /\ loc[1].pc = "exit" /\ ~loc[1].exc
    /\ obs[1].acks0 = 2
    /\ AcksSent = 3

\* caller t is not inside a call
AtRest(t) == loc[t].pc \in {"idle", "failed"}

\* C18: no caller holds the lock once its call has returned or raised, and only a
\* caller inside `with self._lock` holds it; and, the device acknowledging every
\* frame and the scheduling being fair, every call of every caller eventually
\* returns or raises.
C18_LockReleasedAndCallsReturn ==
    /\ [](\A t \in Callers :
             /\ AtRest(t) => _lock # t
             /\ _lock = t => loc[t].pc \in (ConnPcs \cup {"release", "close_conn",
                                                        "close_release"}))
    /\ \A t \in Callers : (~AtRest(t)) ~> AtRest(t)

\* caller 2 has completed a command and released the lock after a command of
\* caller 1 had raised at its acknowledgment read
C18_Witness ==
    /\ AtRest(1) /\ obs[1].raised /\ obs[1].failedAt = "read"
    /\ AtRest(2) /\ loc[2].op = "set" /\ ~obs[2].raised
    /\ _lock = 0
    /\ Len(wire) > 0
    /\ wire[Len(wire)].by = 2 /\ wire[Len(wire)].op = "close"
    /\ wire[Len(wire)].inv > loc[1].inv

\* C13: when main is over, close() has run and returned, the lock is free and the
\* port is closed, and an interrupt has not become an error; and, main being
\* scheduled and the device acknowledging, once the mode function has returned or
\* an exception (an error or an interrupt, wherever it struck) has left it, main
\* eventually gets there.
C13_CloseOnEveryExit ==
    /\ [](loc[1].main = "done" =>
             /\ loc[1].op = "close" /\ loc[1].pc = "idle"
             /\ _lock = 0 /\ ~_conn.is_open
             /\ loc[1].sig => ~loc[1].err)
    /\ (loc[1].main = "exit") ~> (loc[1].main = "done")
    /\ (loc[1].main = "mode" /\ loc[1].exc) ~> (loc[1].main = "done")

\* main is over after show_rainbow was interrupted during a fade, while set_rgb
\* was holding the connection, and close() has run
C13_Witness ==
    /\ loc[1].main = "done" /\ loc[1].mode = "rainbow"
    /\ loc[1].sig /\ ~loc[1].err
    /\ obs[1].prevOp = "fade"
    /\ Len(wire) > 1
    /\ wire[Len(wire)].op = "close"
    /\ wire[Len(wire) - 1].op \in {"reset", "write", "flush"}

\* n + (f - n) * usage / 100, the usage counted in halves of a percent
Interpolated(n, f, usage) == FAdd(FInt(n), FDivInt(FInt((f - n) * usage), 200))

\* C14: as stated: when show_system_load has just called fade_rgb, the target
\* of the fade is, per channel, the
\* linear interpolation between the no-load and the full-load colour at
\* max_usage / 100: the no-load colour at 0, the full-load colour at 100.
C14_Original ==
    (loc[1].mode = "sysload" /\ loc[1].op = "fade" /\ loc[1].pc = "fade_sleep"
       /\ loc[1].i = 0) =>
       \A c \in 1..3 :
          LET n == loc[1].no_load_rgb[c]
              f == loc[1].full_load_rgb[c]
          IN  /\ Near(loc[1].target[c], Interpolated(n, f, loc[1].max_usage))
              /\ loc[1].max_usage = 0 => loc[1].target[c] = FInt(n)
              /\ loc[1].max_usage = 200 => loc[1].target[c] = FInt(f)
====
